---- MODULE Spec2Model ----
(***************************************************************************)
(* Model of the parcel volume manager (pkg/kubernetes/volume.go) and of    *)
(* the control plane it talks to.  Strings are TLA+ strings; characters    *)
(* are strings of length one.                                              *)
(***************************************************************************)
EXTENDS Integers, Sequences, FiniteSets, TLC

(***************************************************************************)
(* Bounds of the model.                                                    *)
(***************************************************************************)
\* number of manager operations the callers may start, all together
MaxOps == 3
\* number of identifiers the random source can hand out
NumUuids == 2

(***************************************************************************)
(* Characters and strings.                                                 *)
(***************************************************************************)
LowerChars == "abcdefghijklmnopqrstuvwxyz"
UpperChars == "ABCDEFGHIJKLMNOPQRSTUVWXYZ"
DigitChars == "0123456789"

CharAt(s, i) == SubSeq(s, i, i)

Lowers == {CharAt(LowerChars, i) : i \in 1..Len(LowerChars)}
Uppers == {CharAt(UpperChars, i) : i \in 1..Len(UpperChars)}
Digits == {CharAt(DigitChars, i) : i \in 1..Len(DigitChars)}

\* the lower-case letter of each upper-case letter
LowerOf == [c \in Uppers |->
              CharAt(LowerChars, CHOOSE i \in 1..Len(UpperChars) : CharAt(UpperChars, i) = c)]

\* the value of each decimal digit
DigitValue == [c \in Digits |-> (CHOOSE i \in 1..Len(DigitChars) : CharAt(DigitChars, i) = c) - 1]

IsLetter(c) == c \in Lowers \/ c \in Uppers
IsDigit(c) == c \in Digits

HasPrefix(s, prefix) ==
    Len(s) >= Len(prefix) /\ SubSeq(s, 1, Len(prefix)) = prefix

RECURSIVE ToLower(_)
ToLower(s) ==
    IF s = "" THEN ""
    ELSE LET c == CharAt(s, 1)
         IN (IF c \in Uppers THEN LowerOf[c] ELSE c) \o ToLower(SubSeq(s, 2, Len(s)))

\* strconv.FormatInt(n, 10)
RECURSIVE FormatNat(_)
FormatNat(n) ==
    IF n < 10 THEN CharAt(DigitChars, n + 1)
    ELSE FormatNat(n \div 10) \o CharAt(DigitChars, (n % 10) + 1)

\* the sign is dropped
FormatIntAbs(n) == FormatNat(IF n < 0 THEN 0 - n ELSE n)

FormatInt(n) == IF n < 0 THEN "-" \o FormatNat(0 - n) ELSE FormatNat(n)

\* strconv.ParseInt(s, 10, 64): an optional sign followed by at least one
\* digit and nothing but digits.  The strings of the model are far shorter
\* than the 19 digits at which the 64-bit range check could fail.
RECURSIVE DigitsValue(_, _)
DigitsValue(s, acc) ==
    IF s = "" THEN acc
    ELSE DigitsValue(SubSeq(s, 2, Len(s)), acc * 10 + DigitValue[CharAt(s, 1)])

ParseInt(s) ==
    LET signed == s # "" /\ CharAt(s, 1) \in {"+", "-"}
        body == IF signed THEN SubSeq(s, 2, Len(s)) ELSE s
        ok == body # "" /\ \A i \in 1..Len(body) : IsDigit(CharAt(body, i))
    IN IF ~ok THEN [ok |-> FALSE, val |-> 0]
       ELSE [ok |-> TRUE,
             val |-> IF signed /\ CharAt(s, 1) = "-" THEN 0 - DigitsValue(body, 0)
                     ELSE DigitsValue(body, 0)]

(***************************************************************************)
(* Program constants.                                                      *)
(***************************************************************************)
csiDriverName == "parcel.csi.iychoi"
csiDriverStorageClassName == "parcel-sc"
VolumeNamespace == "default"
VolumeNamePrefix == "parcel-pv-"

NoError == "nil"

(***************************************************************************)
(* Scheme resolver and the identity and label codec.                       *)
(***************************************************************************)
\* net/url getScheme as used by url.Parse: the letters, digits, + - . up to
\* the first colon; no scheme when another character comes first; an error
\* when the URL starts with a colon, or when a URL without scheme has a
\* colon in its first path segment.
RECURSIVE SchemeEnd(_, _)
SchemeEnd(rawURL, i) ==
    IF i > Len(rawURL) THEN [err |-> NoError, end |-> 0]
    ELSE LET c == CharAt(rawURL, i) IN
         IF IsLetter(c) THEN SchemeEnd(rawURL, i + 1)
         ELSE IF IsDigit(c) \/ c \in {"+", "-", "."}
              THEN (IF i = 1 THEN [err |-> NoError, end |-> 0] ELSE SchemeEnd(rawURL, i + 1))
         ELSE IF c = ":"
              THEN (IF i = 1 THEN [err |-> "missing protocol scheme", end |-> 0]
                    ELSE [err |-> NoError, end |-> i - 1])
         ELSE [err |-> NoError, end |-> 0]

RECURSIVE FirstSegmentHasColon(_, _)
FirstSegmentHasColon(s, i) ==
    IF i > Len(s) THEN FALSE
    ELSE IF CharAt(s, i) = "/" THEN FALSE
    ELSE IF CharAt(s, i) = ":" THEN TRUE
    ELSE FirstSegmentHasColon(s, i + 1)

urlParse(rawURL) ==
    LET se == SchemeEnd(rawURL, 1) IN
    IF se.err # NoError THEN [err |-> se.err, Scheme |-> ""]
    ELSE IF se.end = 0 /\ FirstSegmentHasColon(rawURL, 1)
         THEN [err |-> "first path segment in URL cannot contain colon", Scheme |-> ""]
    ELSE [err |-> NoError, Scheme |-> ToLower(SubSeq(rawURL, 1, se.end))]

\* a scheme that is not known gets the WebDAV driver
getClientDefaultDriver(ds) ==
    LET u == urlParse(ds.URL) IN
    IF u.err # NoError THEN [client |-> "", err |-> "could not parse URL"]
    ELSE LET scheme == ToLower(u.Scheme) IN
         IF scheme = "irods" THEN [client |-> "irodsfuse", err |-> NoError]
         ELSE [client |-> "webdav", err |-> NoError]

\* lines 271-293
getClient(ds) ==
    LET u == urlParse(ds.URL) IN
    IF u.err # NoError THEN [client |-> "", err |-> "could not parse URL"]
    ELSE LET scheme == ToLower(u.Scheme) IN
         IF scheme \in {"webdav", "davfs", "http", "https"}
         THEN [client |-> "webdav", err |-> NoError]
         ELSE IF scheme = "irods" THEN [client |-> "irodsfuse", err |-> NoError]
         ELSE [client |-> "", err |-> "unknown scheme"]

\* the volume-name label does not tell the volumes of a dataset apart
makeLabelsDatasetOnly(ds, volumeName) ==
    [k \in {"volume-name", "dataset-id", "dataset-name"} |->
        IF k = "dataset-id" THEN FormatInt(ds.ID) ELSE ds.Name]

\* lines 295-302
makeLabels(ds, volumeName) ==
    [k \in {"volume-name", "dataset-id", "dataset-name"} |->
        IF k = "volume-name" THEN volumeName
        ELSE IF k = "dataset-id" THEN FormatInt(ds.ID)
        ELSE ds.Name]

checkPersistentVolumeName(pv) == HasPrefix(pv.Name, VolumeNamePrefix)

\* nothing is replaced
StripNothing(s) == s

\* regexp [^a-zA-Z0-9]+ replaced by the empty string
RECURSIVE StripNonAlnum(_)
StripNonAlnum(s) ==
    IF s = "" THEN ""
    ELSE LET c == CharAt(s, 1) IN
         (IF IsLetter(c) \/ IsDigit(c) THEN c ELSE "") \o StripNonAlnum(SubSeq(s, 2, Len(s)))

makePersistentVolumeName(ds, uuid) ==
    VolumeNamePrefix \o StripNonAlnum(ds.Name) \o "-" \o uuid

makePersistentVolumeClaimName(volumeName) == volumeName \o "-claim"

makePersistentVolumeHandleName(volumeName) == volumeName \o "-handle"

(***************************************************************************)
(* Object builders.                                                        *)
(***************************************************************************)
makeStorageClass == [Name |-> csiDriverStorageClassName, Provisioner |-> csiDriverName]

\* the error of getClient is dropped
makePersistentVolumeAnyScheme(ds, volumeName) ==
    [err |-> NoError,
     pv |-> << [Name |-> volumeName,
                Labels |-> makeLabels(ds, volumeName),
                StorageClassName |-> csiDriverStorageClassName,
                ReclaimPolicy |-> "Retain",
                VolumeHandle |-> makePersistentVolumeHandleName(volumeName),
                VolumeAttributes |-> [client |-> getClient(ds).client, url |-> ds.URL,
                                      user |-> "anonymous"]] >>]

\* the URL is stored in lower case
makePersistentVolumeLowerURL(ds, volumeName) ==
    LET c == getClient(ds) IN
    IF c.err # NoError THEN [err |-> c.err, pv |-> <<>>]
    ELSE [err |-> NoError,
          pv |-> << [Name |-> volumeName,
                     Labels |-> makeLabels(ds, volumeName),
                     StorageClassName |-> csiDriverStorageClassName,
                     ReclaimPolicy |-> "Retain",
                     VolumeHandle |-> makePersistentVolumeHandleName(volumeName),
                     VolumeAttributes |-> [client |-> c.client, url |-> ToLower(ds.URL),
                                           user |-> "anonymous"]] >>]

\* lines 337-374
makePersistentVolume(ds, volumeName) ==
    LET c == getClient(ds) IN
    IF c.err # NoError THEN [err |-> c.err, pv |-> <<>>]
    ELSE [err |-> NoError,
          pv |-> << [Name |-> volumeName,
                     Labels |-> makeLabels(ds, volumeName),
                     StorageClassName |-> csiDriverStorageClassName,
                     ReclaimPolicy |-> "Retain",
                     VolumeHandle |-> makePersistentVolumeHandleName(volumeName),
                     VolumeAttributes |-> [client |-> c.client, url |-> ds.URL,
                                           user |-> "anonymous"]] >>]

makePersistentVolumeClaim(ds, volumeName, namespace) ==
    LET labels == makeLabels(ds, volumeName) IN
    [Namespace |-> namespace,
     Name |-> makePersistentVolumeClaimName(volumeName),
     Labels |-> labels,
     StorageClassName |-> csiDriverStorageClassName,
     MatchLabels |-> labels]

(***************************************************************************)
(* The universe of the model: datasets of the catalog, identifiers of the  *)
(* random source, callers, namespaces, and the objects that may already be *)
(* on the control plane when the program starts.                           *)
(***************************************************************************)
Procs == {"p1", "p2"}
Namespaces == {VolumeNamespace, "other"}

DPlant == [ID |-> 42, Name |-> "Plant Genomes!", URL |-> "irods://host/path"]
DFtp == [ID |-> 8, Name |-> "ftp", URL |-> "ftp://host/x"]
DColon == [ID |-> 9, Name |-> "c", URL |-> ":bad"]
Datasets == {DPlant, DFtp, DColon}
NoDataset == [ID |-> 0, Name |-> "", URL |-> ""]

\* a wider catalog: identifiers that are negative, zero and large, names
\* with and without characters outside a-zA-Z0-9, and URLs of the known
\* schemes in several letter cases, of other schemes, without scheme, and
\* URLs that do not parse
CatalogIdNames ==
    { [ID |-> 0 - 7, Name |-> "Plant Genomes!"], [ID |-> 0, Name |-> ""],
      [ID |-> 42, Name |-> "---"], [ID |-> 2147483647, Name |-> "a-b_c.D9"] }

KnownSchemeURLs ==
    { "webdav://h/p", "WEBDAV://h/p", "WebDav://h/p",
      "davfs://h/p", "DAVFS://h/p",
      "http://h/p", "HTTP://h/p",
      "https://h/p", "HTTPS://h/p", "hTTpS://h/p",
      "irods://h/p", "IRODS://h/p", "Irods://h/p" }

OtherURLs ==
    { "ftp://h/p", "s3://b", "file:///x", "irod://h", "httpss://h", "web-dav://h",
      "mailto:a", "", "h/p", "//h/p", ":bad", "1http://h/p" }

WideDatasets ==
    { [ID |-> n.ID, Name |-> n.Name, URL |-> u] :
        n \in CatalogIdNames, u \in KnownSchemeURLs \cup OtherURLs }

\* shortuuid.New(): identifiers over an alphanumeric alphabet
Uuids == {"k" \o CharAt("23456789", i) : i \in 1..NumUuids}

LabelsOf(name, id, dsname) ==
    [k \in {"volume-name", "dataset-id", "dataset-name"} |->
        IF k = "volume-name" THEN name ELSE IF k = "dataset-id" THEN id ELSE dsname]

Without(labels, key) == [k \in (DOMAIN labels) \ {key} |-> labels[k]]

ForeignPV(name, labels) ==
    [Name |-> name, Labels |-> labels, StorageClassName |-> "standard",
     ReclaimPolicy |-> "Retain", VolumeHandle |-> "h",
     VolumeAttributes |-> [client |-> "", url |-> "", user |-> ""]]

ForeignPVC(ns, name, labels) ==
    [Namespace |-> ns, Name |-> name, Labels |-> labels,
     StorageClassName |-> "standard", MatchLabels |-> labels]

ExtName == "zz-pv"
OldName == "parcel-pv-old-9z"

\* a volume without the prefix that carries dataset-shaped labels
ExtPV == ForeignPV(ExtName, LabelsOf(ExtName, "5", "ext"))

\* a volume with the prefix: well labelled, or with one or both dataset
\* labels missing, or an identifier that is no integer
OldPVs ==
    LET good == LabelsOf(OldName, "3", "old") IN
    { ForeignPV(OldName, l) :
        l \in {good, Without(good, "dataset-id"), Without(good, "dataset-name"),
               Without(Without(good, "dataset-id"), "dataset-name"),
               LabelsOf(OldName, "x1", "old")} }

ExtPVC == ForeignPVC(VolumeNamespace, makePersistentVolumeClaimName(ExtName),
                     LabelsOf(ExtName, "5", "ext"))

\* a claim for the prefixed volume: its own claim, one of that name whose
\* label names another volume, one of that name in another namespace, and a
\* claim of another name whose label names the volume
OldPVCs ==
    { ForeignPVC(VolumeNamespace, makePersistentVolumeClaimName(OldName),
                 LabelsOf(OldName, "3", "old")),
      ForeignPVC(VolumeNamespace, makePersistentVolumeClaimName(OldName),
                 LabelsOf("elsewhere", "3", "old")),
      ForeignPVC("other", makePersistentVolumeClaimName(OldName),
                 LabelsOf(OldName, "3", "old")),
      ForeignPVC(VolumeNamespace, "stray-claim", LabelsOf(OldName, "3", "old")) }

\* a second prefixed, well-labelled volume and its claim
NewName == "parcel-pv-new-8y"
NewPV == ForeignPV(NewName, LabelsOf(NewName, "12", "new"))
NewPVC == ForeignPVC(VolumeNamespace, makePersistentVolumeClaimName(NewName),
                     LabelsOf(NewName, "12", "new"))

\* a storage class that has the reserved name and another provisioner
ClashStorageClass == [Name |-> csiDriverStorageClassName, Provisioner |-> "someone.else"]

OtherStorageClass == [Name |-> "standard", Provisioner |-> "kubernetes.io/no-provisioner"]

AtMostOne(S) == {{}} \cup {{x} : x \in S}

(***************************************************************************)
(* State.                                                                  *)
(***************************************************************************)
VARIABLES
    scs,         \* storage classes on the control plane (cluster-scoped)
    pvs,         \* persistent volumes on the control plane (cluster-scoped)
    pvcs,        \* persistent volume claims on the control plane (namespaced)
    usedUuids,   \* identifiers the random source has handed out
    looseGet,    \* whether PersistentVolumes().Get may answer with another volume
    catalog,     \* the datasets the catalog service offers for ordering
    namespace,   \* ParcelVolumeManager.namespace of each caller
    opsLeft,     \* operations the callers may still start
    pc,          \* position of each caller in its current operation
    op,          \* the operation each caller runs or ran last
    ds,          \* its dataset argument
    volumeName,  \* its volume name (argument, or generated)
    held,        \* objects the operation holds between its calls
    err,         \* the error it returned ("nil": none)
    mounts,      \* the mounts it returned
    calls,       \* the control-plane calls it issued, in order
    handler      \* the command each caller runs, its remaining arguments, how it ended

cluster == <<scs, pvs, pvcs>>
locals == <<pc, op, ds, volumeName, held, err, mounts, calls>>
vars == <<scs, pvs, pvcs, usedUuids, looseGet, catalog, namespace, opsLeft,
          pc, op, ds, volumeName, held, err, mounts, calls, handler>>

\* no command running
NoHandler == [cmd |-> "none", at |-> "", args |-> <<>>, exit |-> ""]

InitLocals ==
    /\ handler = [p \in Procs |-> NoHandler]
    /\ pc = [p \in Procs |-> "idle"]
    /\ op = [p \in Procs |-> "none"]
    /\ ds = [p \in Procs |-> NoDataset]
    /\ volumeName = [p \in Procs |-> ""]
    /\ held = [p \in Procs |-> <<>>]
    /\ err = [p \in Procs |-> NoError]
    /\ mounts = [p \in Procs |-> <<>>]
    /\ calls = [p \in Procs |-> <<>>]
    /\ usedUuids = {}

InitStorageClasses ==
    {{OtherStorageClass}, {OtherStorageClass, makeStorageClass},
     {OtherStorageClass, ClashStorageClass}}

\* any combination of the objects above
AnyCluster ==
    /\ scs = {OtherStorageClass, makeStorageClass}
    /\ \E e \in {{}, {ExtPV}}, o \in AtMostOne(OldPVs), n \in {{}, {NewPV}} :
          /\ pvs = e \cup o \cup n
          /\ \E c \in AtMostOne(OldPVCs) :
                pvcs = (IF e = {} THEN {} ELSE {ExtPVC}) \cup c
                         \cup (IF n = {} THEN {} ELSE {NewPVC})

\* two callers in the default namespace; no volume and no claim yet
Init ==
    /\ InitLocals
    /\ scs \in InitStorageClasses
    /\ pvs = {}
    /\ pvcs = {}
    /\ looseGet = FALSE
    /\ catalog = Datasets
    /\ namespace = [p \in Procs |-> VolumeNamespace]
    /\ opsLeft = MaxOps

\* the callers on any small control-plane state
InitAnyCluster ==
    /\ InitLocals
    /\ AnyCluster
    /\ looseGet = FALSE
    /\ catalog = Datasets
    /\ namespace = [p \in Procs |-> VolumeNamespace]
    /\ opsLeft = MaxOps - 2

\* the same, against a client whose Get answers with the nearest match
InitNearestMatch ==
    /\ InitLocals
    /\ AnyCluster
    /\ looseGet = TRUE
    /\ catalog = Datasets
    /\ namespace = [p \in Procs |-> VolumeNamespace]
    /\ opsLeft = MaxOps - 2

\* the callers on an empty cluster, with a catalog of one dataset out of
\* the wider choice
InitCatalog ==
    /\ InitLocals
    /\ scs = {OtherStorageClass, makeStorageClass}
    /\ pvs = {}
    /\ pvcs = {}
    /\ looseGet = FALSE
    /\ catalog \in {{d} : d \in WideDatasets}
    /\ namespace = [p \in Procs |-> VolumeNamespace]
    /\ opsLeft = MaxOps - 1

\* two managers configured with different namespaces, on an empty cluster
InitNamespaces ==
    /\ InitLocals
    /\ scs = {OtherStorageClass, makeStorageClass}
    /\ pvs = {}
    /\ pvcs = {}
    /\ looseGet = FALSE
    /\ catalog = Datasets
    /\ namespace \in {f \in [Procs -> Namespaces] : \A p, q \in Procs : p # q => f[p] # f[q]}
    /\ opsLeft = MaxOps

(***************************************************************************)
(* Bookkeeping shared by the operations.                                   *)
(***************************************************************************)
Call(name, ok) == [call |-> name, ok |-> ok]

\* caller p starts operation o with the given arguments
Begin(p, o, d, v) ==
    /\ pc[p] = "idle"
    /\ opsLeft > 0
    /\ opsLeft' = opsLeft - 1
    /\ op' = [op EXCEPT ![p] = o]
    /\ ds' = [ds EXCEPT ![p] = d]
    /\ volumeName' = [volumeName EXCEPT ![p] = v]

\* caller p returns e and the mounts ms, having issued the calls cs
Return(p, e, ms, cs) ==
    /\ pc' = [pc EXCEPT ![p] = "idle"]
    /\ err' = [err EXCEPT ![p] = e]
    /\ mounts' = [mounts EXCEPT ![p] = ms]
    /\ calls' = [calls EXCEPT ![p] = cs]
    /\ held' = [held EXCEPT ![p] = <<>>]

\* caller p goes on to the step at, holding h
Goto(p, at, h, cs) ==
    /\ pc' = [pc EXCEPT ![p] = at]
    /\ err' = [err EXCEPT ![p] = NoError]
    /\ mounts' = [mounts EXCEPT ![p] = <<>>]
    /\ calls' = [calls EXCEPT ![p] = cs]
    /\ held' = [held EXCEPT ![p] = h]

(***************************************************************************)
(* CreateStorageClass.                                                     *)
(***************************************************************************)
\* lines 91-107: the error of List is never looked at; a failed List yields
\* an empty list
\* the loop compares with the wrong field and never finds the class
FoundExistingByProvisioner(items, sc) ==
    \E scExisting \in items : scExisting.Name = sc.Provisioner

\* lines 99-105
FoundExisting(items, sc) == \E scExisting \in items : scExisting.Name = sc.Name

CreateStorageClass(p) ==
    /\ Begin(p, "CreateStorageClass", NoDataset, "")
    /\ \E listOk \in BOOLEAN :
        LET sc == makeStorageClass
            items == IF listOk THEN scs ELSE {}
            foundExisting == FoundExisting(items, sc)
            cs == <<Call("StorageClasses.List", listOk)>>
        IN IF foundExisting THEN Return(p, NoError, <<>>, cs)
           ELSE Goto(p, "sc_create", <<>>, cs)
    /\ UNCHANGED <<cluster, usedUuids, looseGet, catalog, namespace>>

\* a class is stored whatever classes there are
SCCreateErrorNoConflict(sc, backendOk) ==
    IF ~backendOk THEN "BackendError" ELSE NoError

\* outcome of StorageClasses().Create(sc)
SCCreateError(sc, backendOk) ==
    IF ~backendOk THEN "BackendError"
    ELSE IF \E e \in scs : e.Name = sc.Name THEN "AlreadyExists"
    ELSE NoError

\* lines 107-114
CreateStorageClassCreate(p) ==
    /\ pc[p] = "sc_create"
    /\ \E backendOk \in BOOLEAN :
        LET sc == makeStorageClass
            e == SCCreateError(sc, backendOk)
        IN /\ scs' = IF e = NoError THEN scs \cup {sc} ELSE scs
           /\ Return(p, e, <<>>, Append(calls[p], Call("StorageClasses.Create", e = NoError)))
    /\ UNCHANGED <<pvs, pvcs, usedUuids, looseGet, catalog, namespace, opsLeft, op, ds, volumeName>>

(***************************************************************************)
(* CreateVolume.                                                           *)
(***************************************************************************)
\* outcome of PersistentVolumes().Create(pv)
PVCreateError(pv, backendOk) ==
    IF ~backendOk THEN "BackendError"
    ELSE IF \E e \in pvs : e.Name = pv.Name THEN "AlreadyExists"
    ELSE NoError

\* outcome of PersistentVolumeClaims(ns).Create(pvc)
PVCCreateError(pvc, backendOk) ==
    IF ~backendOk THEN "BackendError"
    ELSE IF \E e \in pvcs : e.Namespace = pvc.Namespace /\ e.Name = pvc.Name
         THEN "AlreadyExists"
    ELSE NoError

\* line 315, shortuuid.New(): an identifier that was never handed out
\* before (a collision of two random identifiers is taken to be impossible).
\* Names are only compared for equality and for their prefix, so which of
\* the unused identifiers comes out makes no difference: the model hands
\* them out in a fixed order.  No identifier is left when all are used.
NewUuids ==
    IF Uuids \ usedUuids = {} THEN {}
    ELSE {CHOOSE u \in Uuids \ usedUuids : TRUE}

\* lines 119-130: name, volume object, volume create
CreateVolume(p, d) ==
    \E uuid \in NewUuids, backendOk \in BOOLEAN :
        LET name == makePersistentVolumeName(d, uuid)
            built == makePersistentVolume(d, name)
        IN /\ Begin(p, "CreateVolume", d, name)
           /\ usedUuids' = usedUuids \cup {uuid}
           /\ IF built.err # NoError
              THEN /\ Return(p, built.err, <<>>, <<>>)
                   /\ pvs' = pvs
              ELSE LET pv == built.pv[1]
                       e == PVCreateError(pv, backendOk)
                       cs == <<Call("PersistentVolumes.Create", e = NoError)>>
                   IN IF e # NoError
                      THEN /\ Return(p, e, <<>>, cs)
                           /\ pvs' = pvs
                      ELSE /\ Goto(p, "cv_claim", <<pv>>, cs)
                           /\ pvs' = pvs \cup {pv}
           /\ UNCHANGED <<scs, pvcs, looseGet, catalog, namespace>>

\* the error of the claim create is dropped
AfterClaimCreateUnchecked(p, e, pvc, cs) ==
    Return(p, NoError,
           << [Dataset |-> ds[p], PersistentVolume |-> held[p][1],
               PersistentVolumeClaim |-> pvc] >>, cs)

\* lines 138-146: what CreateVolume returns after the claim create returned e
AfterClaimCreate(p, e, pvc, cs) ==
    IF e # NoError THEN Return(p, e, <<>>, cs)
    ELSE Return(p, NoError,
                << [Dataset |-> ds[p], PersistentVolume |-> held[p][1],
                    PersistentVolumeClaim |-> pvc] >>, cs)

\* lines 132-146: claim object, claim create, the mount
CreateVolumeClaim(p) ==
    /\ pc[p] = "cv_claim"
    /\ \E backendOk \in BOOLEAN :
        LET pvc == makePersistentVolumeClaim(ds[p], volumeName[p], namespace[p])
            e == PVCCreateError(pvc, backendOk)
            cs == Append(calls[p], Call("PersistentVolumeClaims.Create", e = NoError))
        IN /\ AfterClaimCreate(p, e, pvc, cs)
           /\ pvcs' = IF e = NoError THEN pvcs \cup {pvc} ELSE pvcs
    /\ UNCHANGED <<scs, pvs, usedUuids, looseGet, catalog, namespace, opsLeft, op, ds, volumeName>>

(***************************************************************************)
(* ListVolumes.                                                            *)
(***************************************************************************)
\* labels[key] of a Go map: the empty string when the key is absent
Label(labels, key) == IF key \in DOMAIN labels THEN labels[key] ELSE ""

\* the orders in which a List call may hand out the objects of S
Orders(S) ==
    {f \in [1..Cardinality(S) -> S] : \A i, j \in 1..Cardinality(S) : f[i] = f[j] => i = j}

\* lines 167-184: the dataset of a volume's labels, or a skip
ListDecode(pv) ==
    IF "dataset-id" \notin DOMAIN pv.Labels THEN [ok |-> FALSE, Dataset |-> NoDataset]
    ELSE LET id == ParseInt(pv.Labels["dataset-id"]) IN
         IF ~id.ok THEN [ok |-> FALSE, Dataset |-> NoDataset]
         ELSE IF "dataset-name" \notin DOMAIN pv.Labels
              THEN [ok |-> FALSE, Dataset |-> NoDataset]
         ELSE [ok |-> TRUE,
               Dataset |-> [ID |-> id.val, Name |-> pv.Labels["dataset-name"], URL |-> ""]]

\* lines 187-198: the first claim of the list whose volume-name label is the
\* volume's name
FirstClaimFor(pv, pvcItems) ==
    LET hits == {j \in 1..Len(pvcItems) : pv.Name = Label(pvcItems[j].Labels, "volume-name")}
    IN IF hits = {} THEN <<>>
       ELSE << pvcItems[CHOOSE j \in hits : \A k \in hits : j <= k] >>

\* lines 165, 191: &pv is the address of the range variable, one variable
\* for the whole loop (go.mod: go 1.14); when ListVolumes returns it holds
\* the last item of the list, whichever iteration took the address
RangeVarPV(pvItems, i) == pvItems[Len(pvItems)]

\* lines 187, 192: &pvc is the range variable of the inner loop, a new one
\* for each volume, left at the matching claim by the break
RangeVarPVC(claim) == claim

\* lines 165-199: what iteration i appends to mounts
IterationMounts(pvItems, pvcItems, i) ==
    LET pv == pvItems[i]
        dec == ListDecode(pv)
        claim == FirstClaimFor(pv, pvcItems)
    IN IF ~checkPersistentVolumeName(pv) THEN <<>>
       ELSE IF ~dec.ok THEN <<>>
       ELSE IF claim = <<>> THEN <<>>
       ELSE << [Dataset |-> dec.Dataset,
                PersistentVolume |-> RangeVarPV(pvItems, i),
                PersistentVolumeClaim |-> RangeVarPVC(claim[1])] >>

RECURSIVE MountsUpTo(_, _, _)
MountsUpTo(pvItems, pvcItems, n) ==
    IF n = 0 THEN <<>>
    ELSE MountsUpTo(pvItems, pvcItems, n - 1) \o IterationMounts(pvItems, pvcItems, n)

\* lines 163-202
ListVolumesMounts(pvItems, pvcItems) == MountsUpTo(pvItems, pvcItems, Len(pvItems))

\* lines 151-156: list the volumes
ListVolumes(p) ==
    /\ Begin(p, "ListVolumes", NoDataset, "")
    /\ \E backendOk \in BOOLEAN :
        LET cs == <<Call("PersistentVolumes.List", backendOk)>> IN
        IF ~backendOk THEN Return(p, "BackendError", <<>>, cs)
        ELSE \E pvItems \in Orders(pvs) : Goto(p, "lv_claims", pvItems, cs)
    /\ UNCHANGED <<cluster, usedUuids, looseGet, catalog, namespace>>

\* lines 158-202: list the claims of the namespace, build the mounts
ListVolumesClaims(p) ==
    /\ pc[p] = "lv_claims"
    /\ \E backendOk \in BOOLEAN :
        LET cs == Append(calls[p], Call("PersistentVolumeClaims.List", backendOk)) IN
        IF ~backendOk THEN Return(p, "BackendError", <<>>, cs)
        ELSE \E pvcItems \in Orders({c \in pvcs : c.Namespace = namespace[p]}) :
                Return(p, NoError, ListVolumesMounts(held[p], pvcItems), cs)
    /\ UNCHANGED <<cluster, usedUuids, looseGet, catalog, namespace, opsLeft, op, ds, volumeName>>

(***************************************************************************)
(* GetVolume.                                                              *)
(***************************************************************************)
\* the answers PersistentVolumes().Get(name) may give: the volume of that
\* name or NotFound, or a backend failure.  The clientset answers with the
\* object of the requested name; line 214 guards against a client that
\* answers with another volume, and with looseGet the model runs against
\* such a client, whose answers include every volume of the cluster
PVGetAnswers(name) ==
    {[err |-> "BackendError", pv |-> <<>>]}
    \cup (IF \E e \in pvs : e.Name = name
          THEN {[err |-> NoError, pv |-> <<e>>] : e \in {x \in pvs : x.Name = name}}
          ELSE {[err |-> "NotFound", pv |-> <<>>]})
    \cup (IF looseGet THEN {[err |-> NoError, pv |-> <<e>>] : e \in pvs} ELSE {})

\* the answers PersistentVolumeClaims(ns).Get(name) may give
PVCGetAnswers(ns, name) ==
    {[err |-> "BackendError", pvc |-> <<>>]}
    \cup (IF \E e \in pvcs : e.Namespace = ns /\ e.Name = name
          THEN {[err |-> NoError, pvc |-> <<e>>] :
                    e \in {x \in pvcs : x.Namespace = ns /\ x.Name = name}}
          ELSE {[err |-> "NotFound", pvc |-> <<>>]})

\* the name of the answer is not compared with the request
GetVolumeCheckPVAnyName(name, ans) ==
    IF ans.err # NoError THEN ans.err ELSE NoError

\* lines 210-216: what GetVolume makes of the volume answer
GetVolumeCheckPV(name, ans) ==
    IF ans.err # NoError THEN ans.err
    ELSE IF ans.pv[1].Name # name THEN "Could not find pv"
    ELSE NoError

\* the dataset-name label is read without looking at whether it was found
GetVolumeDecodePartial(name, pv, ans) ==
    IF ans.err # NoError THEN [err |-> ans.err, Dataset |-> NoDataset]
    ELSE IF Label(ans.pvc[1].Labels, "volume-name") # name
         THEN [err |-> "Could not find pvc", Dataset |-> NoDataset]
    ELSE IF "dataset-id" \notin DOMAIN pv.Labels
         THEN [err |-> "Could not find dataset-id", Dataset |-> NoDataset]
    ELSE LET id == ParseInt(pv.Labels["dataset-id"]) IN
         IF ~id.ok THEN [err |-> "ParseInt", Dataset |-> NoDataset]
         ELSE [err |-> NoError,
               Dataset |-> [ID |-> id.val, Name |-> Label(pv.Labels, "dataset-name"),
                            URL |-> ""]]

\* lines 219-243: what GetVolume makes of the claim answer and the labels
GetVolumeDecode(name, pv, ans) ==
    IF ans.err # NoError THEN [err |-> ans.err, Dataset |-> NoDataset]
    ELSE IF Label(ans.pvc[1].Labels, "volume-name") # name
         THEN [err |-> "Could not find pvc", Dataset |-> NoDataset]
    ELSE IF "dataset-id" \notin DOMAIN pv.Labels
         THEN [err |-> "Could not find dataset-id", Dataset |-> NoDataset]
    ELSE LET id == ParseInt(pv.Labels["dataset-id"]) IN
         IF ~id.ok THEN [err |-> "ParseInt", Dataset |-> NoDataset]
         ELSE IF "dataset-name" \notin DOMAIN pv.Labels
              THEN [err |-> "Could not find dataset-name", Dataset |-> NoDataset]
         ELSE [err |-> NoError,
               Dataset |-> [ID |-> id.val, Name |-> pv.Labels["dataset-name"], URL |-> ""]]

\* the volume names a caller may ask for
ArgNames ==
    ({OldName} \cup {pv.Name : pv \in pvs} \cup {volumeName[q] : q \in Procs}) \ {""}

\* lines 207-216: get the volume
GetVolume(p, v) ==
    /\ Begin(p, "GetVolume", NoDataset, v)
    /\ \E ans \in PVGetAnswers(v) :
        LET e == GetVolumeCheckPV(v, ans)
            cs == <<Call("PersistentVolumes.Get", ans.err = NoError)>>
        IN IF e # NoError THEN Return(p, e, <<>>, cs)
           ELSE Goto(p, "gv_claim", ans.pv, cs)
    /\ UNCHANGED <<cluster, usedUuids, looseGet, catalog, namespace>>

\* lines 218-249: get the claim, rebuild the dataset
GetVolumeClaim(p) ==
    /\ pc[p] = "gv_claim"
    /\ \E ans \in PVCGetAnswers(namespace[p], makePersistentVolumeClaimName(volumeName[p])) :
        LET dec == GetVolumeDecode(volumeName[p], held[p][1], ans)
            cs == Append(calls[p], Call("PersistentVolumeClaims.Get", ans.err = NoError))
        IN IF dec.err # NoError THEN Return(p, dec.err, <<>>, cs)
           ELSE Return(p, NoError,
                       << [Dataset |-> dec.Dataset, PersistentVolume |-> held[p][1],
                           PersistentVolumeClaim |-> ans.pvc[1]] >>, cs)
    /\ UNCHANGED <<cluster, usedUuids, looseGet, catalog, namespace, opsLeft, op, ds, volumeName>>

(***************************************************************************)
(* DeleteVolume.                                                           *)
(***************************************************************************)
\* outcome of PersistentVolumeClaims(ns).Delete(name)
PVCDeleteError(ns, name, backendOk) ==
    IF ~backendOk THEN "BackendError"
    ELSE IF ~\E e \in pvcs : e.Namespace = ns /\ e.Name = name THEN "NotFound"
    ELSE NoError

\* outcome of PersistentVolumes().Delete(name)
PVDeleteError(name, backendOk) ==
    IF ~backendOk THEN "BackendError"
    ELSE IF ~\E e \in pvs : e.Name = name THEN "NotFound"
    ELSE NoError

\* the volume delete is attempted whatever the claim delete returned
AfterClaimDeleteContinue(p, e, cs) == Goto(p, "dv_volume", <<>>, cs)

\* lines 258-260: what DeleteVolume does after the claim delete returned e
AfterClaimDelete(p, e, cs) ==
    IF e # NoError THEN Return(p, e, <<>>, cs)
    ELSE Goto(p, "dv_volume", <<>>, cs)

\* lines 254-260: delete the claim
DeleteVolume(p, v) ==
    /\ Begin(p, "DeleteVolume", NoDataset, v)
    /\ \E backendOk \in BOOLEAN :
        LET name == makePersistentVolumeClaimName(v)
            e == PVCDeleteError(namespace[p], name, backendOk)
        IN /\ pvcs' = IF e = NoError
                      THEN {c \in pvcs : ~(c.Namespace = namespace[p] /\ c.Name = name)}
                      ELSE pvcs
           /\ AfterClaimDelete(p, e, <<Call("PersistentVolumeClaims.Delete", e = NoError)>>)
    /\ UNCHANGED <<scs, pvs, usedUuids, looseGet, catalog, namespace>>

\* every volume with the prefix goes
DeleteVolumeVolumeAllManaged(p) ==
    /\ pc[p] = "dv_volume"
    /\ \E backendOk \in BOOLEAN :
        LET e == PVDeleteError(volumeName[p], backendOk) IN
        /\ pvs' = IF e = NoError THEN {x \in pvs : ~checkPersistentVolumeName(x)} ELSE pvs
        /\ Return(p, e, <<>>, Append(calls[p], Call("PersistentVolumes.Delete", e = NoError)))
    /\ UNCHANGED <<scs, pvcs, usedUuids, looseGet, catalog, namespace, opsLeft, op, ds, volumeName>>

\* the storage class goes with the volume
DeleteVolumeVolumeAndClass(p) ==
    /\ pc[p] = "dv_volume"
    /\ \E backendOk \in BOOLEAN :
        LET e == PVDeleteError(volumeName[p], backendOk) IN
        /\ pvs' = IF e = NoError THEN {x \in pvs : x.Name # volumeName[p]} ELSE pvs
        /\ scs' = IF e = NoError THEN {x \in scs : x.Name # csiDriverStorageClassName} ELSE scs
        /\ Return(p, e, <<>>, Append(calls[p], Call("PersistentVolumes.Delete", e = NoError)))
    /\ UNCHANGED <<pvcs, usedUuids, looseGet, catalog, namespace, opsLeft, op, ds, volumeName>>

\* lines 262-268: delete the volume
DeleteVolumeVolume(p) ==
    /\ pc[p] = "dv_volume"
    /\ \E backendOk \in BOOLEAN :
        LET e == PVDeleteError(volumeName[p], backendOk) IN
        /\ pvs' = IF e = NoError THEN {x \in pvs : x.Name # volumeName[p]} ELSE pvs
        /\ Return(p, e, <<>>, Append(calls[p], Call("PersistentVolumes.Delete", e = NoError)))
    /\ UNCHANGED <<scs, pvcs, usedUuids, looseGet, catalog, namespace, opsLeft, op, ds, volumeName>>

(***************************************************************************)
(* The system: callers run manager operations, one control-plane call at a *)
(* time, in any interleaving.                                              *)
(***************************************************************************)
Next ==
    \/ \E p \in Procs : CreateStorageClass(p) /\ UNCHANGED handler
    \/ \E p \in Procs : CreateStorageClassCreate(p) /\ UNCHANGED handler
    \/ \E p \in Procs, d \in catalog : CreateVolume(p, d) /\ UNCHANGED handler
    \/ \E p \in Procs : CreateVolumeClaim(p) /\ UNCHANGED handler
    \/ \E p \in Procs : ListVolumes(p) /\ UNCHANGED handler
    \/ \E p \in Procs : ListVolumesClaims(p) /\ UNCHANGED handler
    \/ \E p \in Procs, v \in ArgNames : GetVolume(p, v) /\ UNCHANGED handler
    \/ \E p \in Procs : GetVolumeClaim(p) /\ UNCHANGED handler
    \/ \E p \in Procs, v \in ArgNames : DeleteVolume(p, v) /\ UNCHANGED handler
    \/ \E p \in Procs : DeleteVolumeVolume(p) /\ UNCHANGED handler

Spec == Init /\ [][Next]_vars

SpecAnyCluster == InitAnyCluster /\ [][Next]_vars

SpecNearestMatch == InitNearestMatch /\ [][Next]_vars

SpecCatalog == InitCatalog /\ [][Next]_vars

SpecNamespaces == InitNamespaces /\ [][Next]_vars

(***************************************************************************)
(* The order and return commands of the command line (func main, package   *)
(* main).  Each caller runs one command at a time; a command runs manager  *)
(* operations one after the other and ends by returning, by log.Fatal or   *)
(* by a panic.                                                             *)
(***************************************************************************)
\* command c of caller p moves to position at with the arguments as
Handle(p, c, at, as) ==
    handler' = [handler EXCEPT ![p] = [cmd |-> c, at |-> at, args |-> as, exit |-> ""]]

\* the command of caller p ends; as are the arguments it did not get to
Exit(p, how, as) ==
    handler' = [handler EXCEPT ![p] = [cmd |-> "none", at |-> "", args |-> as, exit |-> how]]

Idle(p) == handler[p].cmd = "none" /\ pc[p] = "idle"

\* SelectDatasets: the datasets of the catalog whose ID is among the
\* arguments, each once, in the order in which the catalog service lists
\* them
SelectDatasets == UNION {Orders(S) : S \in SUBSET catalog}

\* lines 189-205: select the datasets, ensure the storage class
orderHandler(p) ==
    /\ Idle(p)
    /\ \E datasets \in SelectDatasets : Handle(p, "order", "", datasets)
    /\ CreateStorageClass(p)

\* the error of the last operation is not looked at
orderHandlerNextUnchecked(p) ==
    /\ handler[p].cmd = "order"
    /\ pc[p] = "idle"
    /\ IF handler[p].args = <<>>
       THEN /\ Exit(p, "ok", <<>>)
            /\ UNCHANGED <<cluster, usedUuids, looseGet, catalog, namespace, opsLeft, locals>>
       ELSE /\ CreateVolume(p, Head(handler[p].args))
            /\ Handle(p, "order", "", Tail(handler[p].args))

\* lines 206-221: log.Fatal on the error of CreateStorageClass or of the
\* last CreateVolume; otherwise CreateVolume for the next dataset, or the end
orderHandlerNext(p) ==
    /\ handler[p].cmd = "order"
    /\ pc[p] = "idle"
    /\ IF err[p] # NoError
       THEN /\ Exit(p, "fatal", handler[p].args)
            /\ UNCHANGED <<cluster, usedUuids, looseGet, catalog, namespace, opsLeft, locals>>
       ELSE IF handler[p].args = <<>>
       THEN /\ Exit(p, "ok", <<>>)
            /\ UNCHANGED <<cluster, usedUuids, looseGet, catalog, namespace, opsLeft, locals>>
       ELSE /\ CreateVolume(p, Head(handler[p].args))
            /\ Handle(p, "order", "", Tail(handler[p].args))

\* the volume names of a return command: one name a caller may ask for, or
\* a first and a second
ReturnArgs == {<<a>> : a \in ArgNames} \cup {<<a, b>> : a, b \in ArgNames}

\* lines 243-249: the volume names of the command line
returnHandler(p, args) ==
    /\ Idle(p)
    /\ Handle(p, "return", "get", args)
    /\ UNCHANGED <<cluster, usedUuids, looseGet, catalog, namespace, opsLeft, locals>>

\* lines 250-251: GetVolume for the next name, or the end of the loop
returnHandlerGet(p) ==
    /\ handler[p].cmd = "return"
    /\ handler[p].at = "get"
    /\ pc[p] = "idle"
    /\ IF handler[p].args = <<>>
       THEN /\ Exit(p, "ok", <<>>)
            /\ UNCHANGED <<cluster, usedUuids, looseGet, catalog, namespace, opsLeft, locals>>
       ELSE /\ GetVolume(p, Head(handler[p].args))
            /\ Handle(p, "return", "got", handler[p].args)

\* lines 252-263: the error of GetVolume is logged and nothing else; line
\* 256 then reads mount.PersistentVolume, and mount is nil whenever
\* GetVolume returned an error: the command ends in a nil-pointer panic.
\* With a mount it goes on to DeleteVolume, whose error is logged only
returnHandlerDelete(p) ==
    /\ handler[p].cmd = "return"
    /\ handler[p].at = "got"
    /\ pc[p] = "idle"
    /\ IF mounts[p] = <<>>
       THEN /\ Exit(p, "panic", handler[p].args)
            /\ UNCHANGED <<cluster, usedUuids, looseGet, catalog, namespace, opsLeft, locals>>
       ELSE /\ DeleteVolume(p, Head(handler[p].args))
            /\ Handle(p, "return", "get", Tail(handler[p].args))

\* the callers run commands; the calls of an operation under way are issued
\* one at a time
NextCommands ==
    \/ \E p \in Procs : orderHandler(p)
    \/ \E p \in Procs : orderHandlerNext(p)
    \/ \E p \in Procs, args \in ReturnArgs : returnHandler(p, args)
    \/ \E p \in Procs : returnHandlerGet(p)
    \/ \E p \in Procs : returnHandlerDelete(p)
    \/ \E p \in Procs : CreateStorageClassCreate(p) /\ UNCHANGED handler
    \/ \E p \in Procs : CreateVolumeClaim(p) /\ UNCHANGED handler
    \/ \E p \in Procs : GetVolumeClaim(p) /\ UNCHANGED handler
    \/ \E p \in Procs : DeleteVolumeVolume(p) /\ UNCHANGED handler

\* the command line on a cluster without managed objects, with a catalog
\* of one dataset that can be mounted and one that cannot
InitCommands ==
    /\ InitLocals
    /\ scs = {OtherStorageClass}
    /\ pvs = {}
    /\ pvcs = {}
    /\ looseGet = FALSE
    /\ catalog = {DPlant, DFtp}
    /\ namespace = [p \in Procs |-> VolumeNamespace]
    /\ opsLeft = MaxOps + 1

SpecCommands == InitCommands /\ [][NextCommands]_vars

(***************************************************************************)
(* Vocabulary of the properties.                                           *)
(***************************************************************************)
\* caller p has returned from operation o
Returned(p, o) == op[p] = o /\ pc[p] = "idle"

\* caller p returns from an operation in this step
Returns(p) == pc[p] # "idle" /\ pc'[p] = "idle"

VolumeExists(S, name) == \E pv \in S : pv.Name = name

ClaimExists(S, ns, name) == \E c \in S : c.Namespace = ns /\ c.Name = name

\* some mount of the sequence ms shows the volume of that name
HasMountFor(ms, name) == \E i \in 1..Len(ms) : ms[i].PersistentVolume.Name = name

ManagedStorageClasses(S) == {sc \in S : sc.Name = csiDriverStorageClassName}

WellLabelled(pv) == ListDecode(pv).ok

\* some claim of namespace ns in S names the volume in its volume-name label
ClaimedIn(S, ns, name) ==
    \E c \in S : c.Namespace = ns /\ Label(c.Labels, "volume-name") = name

(***************************************************************************)
(* C1.  CreateVolume does not roll back: when the volume create succeeded  *)
(* and the claim create fails, the call returns an error and no mount, the *)
(* volume it created is still on the control plane, and there is no claim  *)
(* for it (none of the claim's name, none whose label names the volume).   *)
(***************************************************************************)
ClaimCreateFails(p) ==
    /\ pc[p] = "cv_claim"
    /\ Returns(p)
    /\ Len(calls'[p]) = 2
    /\ calls'[p][1].ok
    /\ ~calls'[p][2].ok

C1_PartialCreateKept ==
    [][\A p \in Procs :
        ClaimCreateFails(p) =>
            /\ err'[p] # NoError
            /\ mounts'[p] = <<>>
            /\ held[p][1] \in pvs'
            /\ held[p][1].Name = volumeName[p]
            /\ \A c \in pvcs' :
                  /\ c.Name # makePersistentVolumeClaimName(volumeName[p])
                  /\ Label(c.Labels, "volume-name") # volumeName[p]]_vars

C1_Witness ==
    \E p \in Procs :
        /\ Returned(p, "CreateVolume")
        /\ Len(calls[p]) = 2
        /\ calls[p][1].ok
        /\ ~calls[p][2].ok
        /\ err[p] = "BackendError"
        /\ VolumeExists(pvs, volumeName[p])
        /\ ~ClaimExists(pvcs, namespace[p], makePersistentVolumeClaimName(volumeName[p]))

IssuesVolumeDelete(p) ==
    /\ Len(calls'[p]) = Len(calls[p]) + 1
    /\ calls'[p][Len(calls'[p])].call = "PersistentVolumes.Delete"

C3_ClaimBeforeVolume ==
    [][\A p \in Procs :
        IssuesVolumeDelete(p) =>
            /\ calls[p] = <<Call("PersistentVolumeClaims.Delete", TRUE)>>
            /\ ~ClaimExists(pvcs, namespace[p], makePersistentVolumeClaimName(volumeName[p]))
            /\ ~ClaimExists(pvcs', namespace[p], makePersistentVolumeClaimName(volumeName[p]))
            /\ pvs \ pvs' \subseteq {pv \in pvs : pv.Name = volumeName[p]}]_vars

C3_Witness ==
    \E p \in Procs :
        /\ Returned(p, "DeleteVolume")
        /\ calls[p] = <<Call("PersistentVolumeClaims.Delete", TRUE),
                        Call("PersistentVolumes.Delete", TRUE)>>
        /\ err[p] = NoError
        /\ ~VolumeExists(pvs, volumeName[p])
        /\ ~ClaimExists(pvcs, namespace[p], makePersistentVolumeClaimName(volumeName[p]))

(***************************************************************************)
(* C4.  CreateStorageClass is idempotent in sequence.  When a caller whose *)
(* last call was a CreateStorageClass that returned no error calls it      *)
(* again, exactly one storage class has the reserved name before and after *)
(* the second call, the second call adds nothing, and when its List call   *)
(* succeeds it returns no error after that one call.  A Create issued      *)
(* while a class of the reserved name exists fails and adds nothing, so a  *)
(* second call that returns no error has issued no Create.                 *)
(***************************************************************************)
C4_EnsureTwice ==
    [][\A p \in Procs :
        /\ (Returned(p, "CreateStorageClass") /\ err[p] = NoError /\ CreateStorageClass(p)) =>
              /\ Cardinality(ManagedStorageClasses(scs)) = 1
              /\ scs' = scs
              /\ (calls'[p][1].ok =>
                    /\ pc'[p] = "idle"
                    /\ err'[p] = NoError
                    /\ calls'[p] = <<Call("StorageClasses.List", TRUE)>>)
        /\ (CreateStorageClassCreate(p) /\ ManagedStorageClasses(scs) # {}) =>
              /\ err'[p] # NoError
              /\ scs' = scs]_vars

\* a caller has made two calls, the second a CreateStorageClass that found
\* the class and returned no error
C4_Witness ==
    \E p \in Procs :
        /\ Returned(p, "CreateStorageClass")
        /\ err[p] = NoError
        /\ calls[p] = <<Call("StorageClasses.List", TRUE)>>
        /\ opsLeft = MaxOps - 2
        /\ \A q \in Procs \ {p} : op[q] = "none"
        /\ makeStorageClass \in scs

(***************************************************************************)
(* C5.  As claimed: two CreateVolume calls for the same dataset both       *)
(* succeed (unless the backend fails one of their calls) under different   *)
(* volume names, and a ListVolumes that has seen the volume of a returned  *)
(* CreateVolume and finds its claim returns a mount for that volume.       *)
(***************************************************************************)
CreatedMount(q) == Returned(q, "CreateVolume") /\ err[q] = NoError

C5_ConcurrentCreatesListed ==
    [][/\ \A p \in Procs :
            (Returned(p, "CreateVolume") /\ getClient(ds[p]).err = NoError
                 /\ err[p] # "BackendError") => err[p] = NoError
       /\ \A p, q \in Procs :
            (p # q /\ CreatedMount(p) /\ CreatedMount(q) /\ ds[p] = ds[q]) =>
                volumeName[p] # volumeName[q]
       /\ \A p \in Procs :
            (pc[p] = "lv_claims" /\ Returns(p) /\ err'[p] = NoError) =>
                \A q \in Procs \ {p} :
                    (/\ CreatedMount(q)
                     /\ \E i \in 1..Len(held[p]) : held[p][i] = mounts[q][1].PersistentVolume
                     /\ mounts[q][1].PersistentVolumeClaim \in pvcs)
                    => HasMountFor(mounts'[p], volumeName[q])]_vars

(***************************************************************************)
(* C6.  A dataset whose URL has an unsupported scheme, or does not parse,  *)
(* makes CreateVolume return the builder's error before any control-plane  *)
(* call: no call is issued and the storage classes, volumes and claims are *)
(* the same after the call as before.                                      *)
(***************************************************************************)
C6_BadUrlNoCall ==
    [][\A p \in Procs, d \in Datasets :
        (CreateVolume(p, d) /\ getClient(d).err # NoError) =>
            /\ pc'[p] = "idle"
            /\ err'[p] = getClient(d).err
            /\ mounts'[p] = <<>>
            /\ calls'[p] = <<>>
            /\ pvs' = pvs
            /\ pvcs' = pvcs
            /\ scs' = scs]_vars

C6_Witness ==
    \E p \in Procs :
        /\ Returned(p, "CreateVolume")
        /\ ds[p] = DFtp
        /\ err[p] = "unknown scheme"
        /\ calls[p] = <<>>
        /\ ~VolumeExists(pvs, volumeName[p])

(***************************************************************************)
(* C7.  As claimed: no mount that ListVolumes returns shows a volume whose *)
(* name lacks the prefix.                                                  *)
(***************************************************************************)
C7_ListOnlyPrefixed ==
    \A p \in Procs :
        Returned(p, "ListVolumes") =>
            \A i \in 1..Len(mounts[p]) :
                checkPersistentVolumeName(mounts[p][i].PersistentVolume)

(***************************************************************************)
(* C8.  As claimed: ListVolumes returns no error when both List calls      *)
(* succeed, leaves out every prefixed volume whose dataset labels do not   *)
(* decode, and returns a mount for every prefixed, well-labelled volume of *)
(* the list that a claim of the namespace names.                           *)
(***************************************************************************)
ListReturns(p) ==
    /\ pc[p] = "lv_claims"
    /\ Returns(p)
    /\ calls'[p][2].ok

C8_ListSkipsUndecodable ==
    [][\A p \in Procs :
        ListReturns(p) =>
            /\ err'[p] = NoError
            /\ \A i \in 1..Len(held[p]) :
                LET pv == held[p][i] IN
                /\ (checkPersistentVolumeName(pv) /\ ~WellLabelled(pv))
                      => ~HasMountFor(mounts'[p], pv.Name)
                /\ (checkPersistentVolumeName(pv) /\ WellLabelled(pv)
                        /\ ClaimedIn(pvcs, namespace[p], pv.Name))
                      => HasMountFor(mounts'[p], pv.Name)]_vars

(***************************************************************************)
(* C9.  As claimed: ListVolumes returns no mount, and no error, for a      *)
(* prefixed, well-labelled volume that no claim of the manager's namespace *)
(* names in its volume-name label.                                         *)
(***************************************************************************)
C9_ListSkipsUnclaimed ==
    [][\A p \in Procs :
        ListReturns(p) =>
            /\ err'[p] = NoError
            /\ \A i \in 1..Len(held[p]) :
                LET pv == held[p][i] IN
                (checkPersistentVolumeName(pv) /\ WellLabelled(pv)
                     /\ ~ClaimedIn(pvcs, namespace[p], pv.Name))
                  => ~HasMountFor(mounts'[p], pv.Name)]_vars

(***************************************************************************)
(* C10.  GetVolume(v) returns an error and no mount when no volume named v *)
(* exists, when the volume the client answers with has another name, when  *)
(* no claim named v-claim exists in the manager's namespace, and when that *)
(* claim's volume-name label is not v.  It returns a mount exactly when it *)
(* returns no error.                                                       *)
(***************************************************************************)
C10_GetMountErrors ==
    [][\A p \in Procs :
        /\ \A v \in ArgNames :
              GetVolume(p, v) =>
                 /\ (~VolumeExists(pvs, v) => pc'[p] = "idle")
                 /\ (pc'[p] = "idle" => err'[p] # NoError /\ mounts'[p] = <<>>)
                 /\ (pc'[p] # "idle" =>
                        /\ pc'[p] = "gv_claim"
                        /\ held'[p][1] \in pvs
                        /\ held'[p][1].Name = v)
        /\ (pc[p] = "gv_claim" /\ Returns(p)) =>
              LET v == volumeName[p]
                  claim == makePersistentVolumeClaimName(v)
              IN /\ (err'[p] = NoError <=> Len(mounts'[p]) = 1)
                 /\ (err'[p] # NoError => mounts'[p] = <<>>)
                 /\ (~ClaimExists(pvcs, namespace[p], claim) => err'[p] # NoError)
                 /\ ((\E c \in pvcs : /\ c.Namespace = namespace[p]
                                      /\ c.Name = claim
                                      /\ Label(c.Labels, "volume-name") # v)
                        => err'[p] # NoError)]_vars

\* the client answered GetVolume with a volume of another name
C10_Witness ==
    \E p \in Procs :
        /\ Returned(p, "GetVolume")
        /\ err[p] = "Could not find pv"
        /\ mounts[p] = <<>>
        /\ calls[p] = <<Call("PersistentVolumes.Get", TRUE)>>

(***************************************************************************)
(* C11.  Dataset reconstruction fails closed.  When the volume GetVolume   *)
(* got carries only one of the labels dataset-id and dataset-name, carries *)
(* neither, or carries a dataset-id that is not an integer, GetVolume      *)
(* returns an error and no mount; a mount it returns has a dataset whose   *)
(* ID and name are both read from the volume's labels.                     *)
(***************************************************************************)
DecodableLabels(labels) ==
    /\ "dataset-id" \in DOMAIN labels
    /\ "dataset-name" \in DOMAIN labels
    /\ ParseInt(labels["dataset-id"]).ok

C11_DecodeFailsClosed ==
    [][\A p \in Procs :
        (pc[p] = "gv_claim" /\ Returns(p)) =>
            LET labels == held[p][1].Labels IN
            /\ ~DecodableLabels(labels) => (err'[p] # NoError /\ mounts'[p] = <<>>)
            /\ mounts'[p] # <<>> =>
                  /\ Len(mounts'[p]) = 1
                  /\ DecodableLabels(labels)
                  /\ mounts'[p][1].Dataset.ID = ParseInt(labels["dataset-id"]).val
                  /\ mounts'[p][1].Dataset.Name = labels["dataset-name"]]_vars

\* GetVolume found the volume and its claim and failed on a volume that has
\* the dataset-id label and no dataset-name label
C11_Witness ==
    \E p \in Procs :
        /\ Returned(p, "GetVolume")
        /\ calls[p] = <<Call("PersistentVolumes.Get", TRUE),
                        Call("PersistentVolumeClaims.Get", TRUE)>>
        /\ err[p] = "Could not find dataset-name"
        /\ mounts[p] = <<>>
        /\ \E pv \in pvs :
              /\ pv.Name = volumeName[p]
              /\ "dataset-id" \in DOMAIN pv.Labels
              /\ "dataset-name" \notin DOMAIN pv.Labels

(***************************************************************************)
(* C12.  Label round trip.  After CreateVolume(D) has returned a mount for *)
(* the volume named v, a GetVolume(v) by another caller gets the volume    *)
(* unless the backend fails the call, and, when the claim is still there   *)
(* and the backend does not fail the claim call, returns no error and one  *)
(* mount whose dataset has exactly D's ID and D's name.                    *)
(***************************************************************************)
C12_LabelRoundTrip ==
    [][\A p \in Procs, q \in Procs :
        (p # q /\ CreatedMount(q)) =>
            /\ (/\ GetVolume(p, volumeName[q])
                 /\ mounts[q][1].PersistentVolume \in pvs
                 /\ calls'[p][1].ok)
                  => (pc'[p] = "gv_claim" /\ held'[p][1] = mounts[q][1].PersistentVolume)
            /\ (/\ pc[p] = "gv_claim"
                 /\ Returns(p)
                 /\ volumeName[p] = volumeName[q]
                 /\ mounts[q][1].PersistentVolumeClaim \in pvcs
                 /\ calls'[p][2].ok)
                  => /\ err'[p] = NoError
                     /\ Len(mounts'[p]) = 1
                     /\ mounts'[p][1].Dataset.ID = ds[q].ID
                     /\ mounts'[p][1].Dataset.Name = ds[q].Name
                     /\ mounts'[p][1].PersistentVolume = mounts[q][1].PersistentVolume]_vars

\* a dataset with a negative identifier and a name that is not alphanumeric
\* went through CreateVolume and came back from GetVolume
C12_Witness ==
    \E p \in Procs, q \in Procs :
        /\ p # q
        /\ CreatedMount(q)
        /\ ds[q].ID < 0
        /\ ds[q].Name = "Plant Genomes!"
        /\ Returned(p, "GetVolume")
        /\ volumeName[p] = volumeName[q]
        /\ err[p] = NoError
        /\ mounts[p][1].Dataset.ID = ds[q].ID
        /\ mounts[p][1].Dataset.Name = ds[q].Name

(***************************************************************************)
(* C13.  As claimed: no CreateVolume call ends with its volume present and *)
(* the claim of that volume absent.                                        *)
(***************************************************************************)
\* the state of the volume named v, derived from the objects present
VolumeOnly(V, C, ns, v) ==
    VolumeExists(V, v) /\ ~ClaimExists(C, ns, makePersistentVolumeClaimName(v))

Bound(V, C, ns, v) ==
    VolumeExists(V, v) /\ ClaimExists(C, ns, makePersistentVolumeClaimName(v))

Absent(V, C, ns, v) ==
    ~VolumeExists(V, v) /\ ~ClaimExists(C, ns, makePersistentVolumeClaimName(v))

\* a CreateVolume call of caller p ends in this step
CreateVolumeEnds(p) ==
    /\ pc'[p] = "idle"
    /\ \/ CreateVolumeClaim(p)
       \/ \E d \in catalog : CreateVolume(p, d)

C13_CreateNeverEndsVolumeOnly ==
    [][\A p \in Procs :
        CreateVolumeEnds(p) =>
            ~VolumeOnly(pvs', pvcs', namespace[p], volumeName'[p])]_vars

(***************************************************************************)
(* C13, amended.  CreateVolume takes its volume from absent to volume-only *)
(* (the volume create) and from there to bound (the claim create).  A call *)
(* that returns a mount ends in bound; a call whose claim create fails     *)
(* ends with the volume present and the claim absent; a call that fails    *)
(* earlier leaves the volume absent.  Volumes and claims appear only by    *)
(* these two steps; a claim disappears only by the claim delete of         *)
(* DeleteVolume (bound to volume-only) and a volume only by its volume     *)
(* delete (volume-only to absent).  No claim exists without its volume,    *)
(* and no object that stays is changed.                                    *)
(***************************************************************************)
C13_VolumeLifecycle ==
    [][/\ \A pv \in pvs : VolumeExists(pvs', pv.Name) => pv \in pvs'
       /\ \A c \in pvcs : ClaimExists(pvcs', c.Namespace, c.Name) => c \in pvcs'
       /\ \A pv \in pvs' \ pvs :
            \E p \in Procs :
                /\ pc[p] = "idle" /\ pc'[p] = "cv_claim"
                /\ volumeName'[p] = pv.Name
                /\ Absent(pvs, pvcs, namespace[p], pv.Name)
                /\ VolumeOnly(pvs', pvcs', namespace[p], pv.Name)
       /\ \A c \in pvcs' \ pvcs :
            \E p \in Procs :
                /\ pc[p] = "cv_claim" /\ pc'[p] = "idle"
                /\ c.Namespace = namespace[p]
                /\ c.Name = makePersistentVolumeClaimName(volumeName[p])
                /\ VolumeOnly(pvs, pvcs, namespace[p], volumeName[p])
                /\ Bound(pvs', pvcs', namespace[p], volumeName[p])
       /\ \A c \in pvcs \ pvcs' :
            \E p \in Procs :
                /\ pc[p] = "idle" /\ pc'[p] = "dv_volume"
                /\ c.Name = makePersistentVolumeClaimName(volumeName'[p])
                /\ Bound(pvs, pvcs, namespace[p], volumeName'[p])
                /\ VolumeOnly(pvs', pvcs', namespace[p], volumeName'[p])
       /\ \A pv \in pvs \ pvs' :
            \E p \in Procs :
                /\ pc[p] = "dv_volume" /\ pc'[p] = "idle"
                /\ pv.Name = volumeName[p]
                /\ VolumeOnly(pvs, pvcs, namespace[p], pv.Name)
                /\ Absent(pvs', pvcs', namespace[p], pv.Name)
       /\ \A p \in Procs :
            CreateVolumeEnds(p) =>
                LET v == volumeName'[p] IN
                /\ err'[p] = NoError =>
                      (Len(mounts'[p]) = 1 /\ Bound(pvs', pvcs', namespace[p], v))
                /\ (err'[p] # NoError /\ pc[p] = "cv_claim") =>
                      VolumeOnly(pvs', pvcs', namespace[p], v)
                /\ (err'[p] # NoError /\ pc[p] = "idle") =>
                      Absent(pvs', pvcs', namespace[p], v)
       /\ \A c \in pvcs' : \E pv \in pvs' : c.Name = makePersistentVolumeClaimName(pv.Name)
      ]_vars

\* one CreateVolume call has ended with its volume and no claim, another
\* with volume and claim
C13_Witness ==
    \E p \in Procs, q \in Procs :
        /\ Returned(p, "CreateVolume")
        /\ err[p] = "BackendError"
        /\ Len(calls[p]) = 2
        /\ VolumeOnly(pvs, pvcs, namespace[p], volumeName[p])
        /\ CreatedMount(q)
        /\ Bound(pvs, pvcs, namespace[q], volumeName[q])

(***************************************************************************)
(* C14.  Storage-class singleton under concurrency.  However the List and  *)
(* Create steps of the callers' CreateStorageClass calls interleave, at    *)
(* most one storage class has the reserved name in every state, and a      *)
(* caller whose List shows a class of that name issues no Create, changes  *)
(* nothing and returns no error.                                           *)
(***************************************************************************)
C14_SingletonStorageClass ==
    [][/\ Cardinality(ManagedStorageClasses(scs)) <= 1
       /\ Cardinality(ManagedStorageClasses(scs')) <= 1
       /\ \A p \in Procs :
            (/\ CreateStorageClass(p)
             /\ calls'[p][1].ok
             /\ ManagedStorageClasses(scs) # {})
              => /\ pc'[p] = "idle"
                 /\ err'[p] = NoError
                 /\ calls'[p] = <<Call("StorageClasses.List", TRUE)>>
                 /\ scs' = scs]_vars

\* both callers listed before either created: one Create stored the class,
\* the other was refused
C14_Witness ==
    \E p \in Procs, q \in Procs :
        /\ Returned(p, "CreateStorageClass")
        /\ calls[p] = <<Call("StorageClasses.List", TRUE), Call("StorageClasses.Create", TRUE)>>
        /\ err[p] = NoError
        /\ Returned(q, "CreateStorageClass")
        /\ calls[q] = <<Call("StorageClasses.List", TRUE), Call("StorageClasses.Create", FALSE)>>
        /\ err[q] = "AlreadyExists"
        /\ ManagedStorageClasses(scs) = {makeStorageClass}

(***************************************************************************)
(* C15.  As claimed: CreateStorageClass hands every control-plane failure  *)
(* to its caller.  When the List call fails it returns the List error and  *)
(* issues no Create; when the Create call fails it returns the Create      *)
(* error.                                                                  *)
(***************************************************************************)
C15_PropagatesFailures ==
    [][\A p \in Procs :
        /\ (CreateStorageClass(p) /\ ~calls'[p][1].ok) =>
              /\ pc'[p] = "idle"
              /\ err'[p] = "BackendError"
              /\ calls'[p] = <<Call("StorageClasses.List", FALSE)>>
        /\ (CreateStorageClassCreate(p) /\ ~calls'[p][Len(calls'[p])].ok) =>
              /\ err'[p] \in {"BackendError", "AlreadyExists"}
              /\ scs' = scs]_vars

(***************************************************************************)
(* C16.  The storage class is never deleted.  No step removes or changes a *)
(* storage class; the steps of CreateVolume, ListVolumes, GetVolume and    *)
(* DeleteVolume leave the set of storage classes as it is; and a caller    *)
(* whose CreateStorageClass returned no error sees a class of the reserved *)
(* name in that state and, the set only growing, in every later one.       *)
(***************************************************************************)
VolumeOperationStep(p) ==
    \/ \E d \in catalog : CreateVolume(p, d)
    \/ CreateVolumeClaim(p)
    \/ ListVolumes(p)
    \/ ListVolumesClaims(p)
    \/ \E v \in ArgNames : GetVolume(p, v)
    \/ GetVolumeClaim(p)
    \/ \E v \in ArgNames : DeleteVolume(p, v)
    \/ DeleteVolumeVolume(p)

C16_StorageClassKept ==
    [][/\ scs \subseteq scs'
       /\ \A p \in Procs : VolumeOperationStep(p) => scs' = scs
       /\ \A p \in Procs :
            (pc[p] # "idle" /\ Returned(p, "CreateStorageClass")' /\ err'[p] = NoError)
                => ManagedStorageClasses(scs') # {}
       /\ ManagedStorageClasses(scs) # {} => ManagedStorageClasses(scs') # {}]_vars

\* one caller created the storage class, the other created a volume and
\* deleted it again: the class is still there
C16_Witness ==
    \E p \in Procs, q \in Procs :
        /\ Returned(p, "CreateStorageClass")
        /\ err[p] = NoError
        /\ calls[p][Len(calls[p])] = Call("StorageClasses.Create", TRUE)
        /\ Returned(q, "DeleteVolume")
        /\ calls[q] = <<Call("PersistentVolumeClaims.Delete", TRUE),
                        Call("PersistentVolumes.Delete", TRUE)>>
        /\ makeStorageClass \in scs

(***************************************************************************)
(* C17.  Every volume name CreateVolume generates, whatever the dataset's  *)
(* name, starts with the prefix and consists of letters, digits and        *)
(* hyphens only; every volume CreateVolume creates carries that name and   *)
(* passes checkPersistentVolumeName.                                       *)
(***************************************************************************)
NameCharsOnly(v) ==
    \A i \in 1..Len(v) :
        LET c == CharAt(v, i) IN c \in Lowers \/ c \in Uppers \/ c \in Digits \/ c = "-"

C17_GeneratedNames ==
    [][\A p \in Procs, d \in catalog :
        CreateVolume(p, d) =>
            LET v == volumeName'[p] IN
            /\ SubSeq(v, 1, 10) = "parcel-pv-"
            /\ Len(v) > 10
            /\ NameCharsOnly(v)
            /\ \A pv \in pvs' \ pvs : pv.Name = v /\ checkPersistentVolumeName(pv)
            /\ \A pv \in pvs' : checkPersistentVolumeName(pv)]_vars

\* a volume was created for the dataset named a-b_c.D9
C17_Witness ==
    \E p \in Procs :
        /\ CreatedMount(p)
        /\ ds[p].Name = "a-b_c.D9"
        /\ SubSeq(volumeName[p], 1, 16) = "parcel-pv-abcD9-"
        /\ VolumeExists(pvs, volumeName[p])

(***************************************************************************)
(* C18.  For every dataset whose URL has a supported scheme and for every  *)
(* volume name, makePersistentVolume returns no error and a volume of that *)
(* name whose url attribute is the dataset's URL unchanged and whose       *)
(* client attribute is the driver getClient resolves for the dataset; the  *)
(* volume CreateVolume creates is that volume.                             *)
(***************************************************************************)
C18_BuiltVolumeAttributes ==
    [][\A p \in Procs, d \in catalog :
        (CreateVolume(p, d) /\ getClient(d).err = NoError) =>
            /\ \A v \in ArgNames \cup {volumeName'[p], ""} :
                  LET built == makePersistentVolume(d, v) IN
                  /\ built.err = NoError
                  /\ built.pv[1].Name = v
                  /\ built.pv[1].VolumeAttributes.url = d.URL
                  /\ built.pv[1].VolumeAttributes.client = getClient(d).client
            /\ \A pv \in pvs' \ pvs :
                  /\ pv = makePersistentVolume(d, volumeName'[p]).pv[1]
                  /\ pv.VolumeAttributes.url = d.URL
                  /\ pv.VolumeAttributes.client = getClient(d).client
                  /\ held'[p] = <<pv>>]_vars

\* a volume was created for a URL in mixed case
C18_Witness ==
    \E p \in Procs :
        /\ CreatedMount(p)
        /\ ds[p].URL = "hTTpS://h/p"
        /\ \E pv \in pvs :
              /\ pv.Name = volumeName[p]
              /\ pv.VolumeAttributes.url = "hTTpS://h/p"
              /\ pv.VolumeAttributes.client = "webdav"

(***************************************************************************)
(* C19.  getClient answers for every URL, with a driver and no error or    *)
(* with an error and no driver.  URLs whose scheme is webdav, davfs, http  *)
(* or https, in any letter case, get the driver webdav; those whose scheme *)
(* is irods, in any letter case, get irodsfuse; every other URL (another   *)
(* scheme, no scheme, the empty URL, a URL that does not parse) gets an    *)
(* error, and CreateVolume then returns that error without a call.         *)
(***************************************************************************)
WebDAVURLs ==
    { "webdav://h/p", "WEBDAV://h/p", "WebDav://h/p", "davfs://h/p", "DAVFS://h/p",
      "http://h/p", "HTTP://h/p", "https://h/p", "HTTPS://h/p", "hTTpS://h/p" }

FuseURLs == { "irods://h/p", "IRODS://h/p", "Irods://h/p" }

C19_SchemeResolver ==
    [][\A p \in Procs, d \in catalog :
        CreateVolume(p, d) =>
            LET c == getClient(d) IN
            /\ (c.err = NoError /\ c.client \in {"webdav", "irodsfuse"})
                  \/ (c.err \in {"unknown scheme", "could not parse URL"} /\ c.client = "")
            /\ d.URL \in WebDAVURLs => (c.err = NoError /\ c.client = "webdav")
            /\ d.URL \in FuseURLs => (c.err = NoError /\ c.client = "irodsfuse")
            /\ d.URL \notin WebDAVURLs \cup FuseURLs =>
                  /\ c.err # NoError
                  /\ pc'[p] = "idle"
                  /\ err'[p] = c.err
                  /\ calls'[p] = <<>>
                  /\ mounts'[p] = <<>>
                  /\ pvs' = pvs
            /\ \A pv \in pvs' \ pvs : pv.VolumeAttributes.client = c.client]_vars

\* a volume with the FUSE driver was created for a URL whose scheme is
\* irods in upper case
C19_Witness ==
    \E p \in Procs :
        /\ CreatedMount(p)
        /\ ds[p].URL = "IRODS://h/p"
        /\ mounts[p][1].PersistentVolume.VolumeAttributes.client = "irodsfuse"

(***************************************************************************)
(* C20.  As claimed: when the volume list holds two or more prefixed,      *)
(* well-labelled volumes that a claim of the namespace names, ListVolumes  *)
(* returns one mount for each of them, the volumes of the mounts have      *)
(* pairwise different names, and in each mount the claim's volume-name     *)
(* label is the name of the mount's volume and the dataset is the one the  *)
(* labels of the mount's volume decode to.                                 *)
(***************************************************************************)
ManagedItems(pvItems, ns) ==
    {i \in 1..Len(pvItems) :
        /\ checkPersistentVolumeName(pvItems[i])
        /\ WellLabelled(pvItems[i])
        /\ ClaimedIn(pvcs, ns, pvItems[i].Name)}

C20_ListMountsOwnVolume ==
    [][\A p \in Procs :
        (ListReturns(p) /\ Cardinality(ManagedItems(held[p], namespace[p])) >= 2) =>
            LET ms == mounts'[p] IN
            /\ err'[p] = NoError
            /\ Len(ms) = Cardinality(ManagedItems(held[p], namespace[p]))
            /\ \A i \in ManagedItems(held[p], namespace[p]) : HasMountFor(ms, held[p][i].Name)
            /\ \A i, j \in 1..Len(ms) :
                  i # j => ms[i].PersistentVolume.Name # ms[j].PersistentVolume.Name
            /\ \A i \in 1..Len(ms) :
                  /\ Label(ms[i].PersistentVolumeClaim.Labels, "volume-name")
                        = ms[i].PersistentVolume.Name
                  /\ ms[i].Dataset = ListDecode(ms[i].PersistentVolume).Dataset]_vars

(***************************************************************************)
(* C21.  As claimed: a volume without claim can be reclaimed through       *)
(* DeleteVolume.  A DeleteVolume(v) that starts while volume v exists and  *)
(* the claim v-claim does not goes on to the volume delete, unless the     *)
(* backend fails the claim call, and a volume delete the backend does not  *)
(* fail leaves volume v absent.                                            *)
(***************************************************************************)
C21_OrphanReclaimed ==
    [][\A p \in Procs :
        /\ \A v \in ArgNames :
              (DeleteVolume(p, v) /\ VolumeOnly(pvs, pvcs, namespace[p], v)) =>
                  \/ pc'[p] = "dv_volume"
                  \/ err'[p] = "BackendError"
        /\ (DeleteVolumeVolume(p) /\ err'[p] # "BackendError") =>
              ~VolumeExists(pvs', volumeName[p])]_vars

(***************************************************************************)
(* C22.  Claims never exist without their volume.  From a cluster without  *)
(* volumes and claims, however the steps of the callers' CreateVolume and  *)
(* DeleteVolume calls interleave, every claim in every state has the name  *)
(* v-claim of a volume v that exists; the claim create is issued only by a *)
(* caller whose one earlier call is a successful volume create, and the    *)
(* volume delete only by one whose one earlier call is a successful claim  *)
(* delete.                                                                 *)
(***************************************************************************)
ClaimsHaveVolumes(V, C) ==
    \A c \in C : \E pv \in V : c.Name = makePersistentVolumeClaimName(pv.Name)

IssuesCall(p, name) ==
    /\ Len(calls'[p]) = Len(calls[p]) + 1
    /\ calls'[p][Len(calls'[p])].call = name
    /\ SubSeq(calls'[p], 1, Len(calls[p])) = calls[p]

C22_ClaimsNeverWithoutVolume ==
    [][/\ ClaimsHaveVolumes(pvs, pvcs)
       /\ ClaimsHaveVolumes(pvs', pvcs')
       /\ \A p \in Procs :
            /\ IssuesCall(p, "PersistentVolumeClaims.Create") =>
                  /\ calls[p] = <<Call("PersistentVolumes.Create", TRUE)>>
                  /\ VolumeExists(pvs, volumeName[p])
            /\ IssuesCall(p, "PersistentVolumes.Delete") =>
                  calls[p] = <<Call("PersistentVolumeClaims.Delete", TRUE)>>]_vars

\* one caller has deleted the claim of the volume another caller created
\* and is about to delete the volume
C22_Witness ==
    \E p \in Procs, q \in Procs :
        /\ p # q
        /\ CreatedMount(p)
        /\ op[q] = "DeleteVolume"
        /\ pc[q] = "dv_volume"
        /\ volumeName[q] = volumeName[p]
        /\ VolumeOnly(pvs, pvcs, namespace[p], volumeName[p])

(***************************************************************************)
(* C23.  Claim-to-volume pinning.  In the mount a successful CreateVolume  *)
(* returns, the claim's selector match-labels are the claim's own labels   *)
(* and the labels of the volume created in the same call, the claim has    *)
(* the name v-claim of that volume v, and no other volume of the cluster,  *)
(* the volumes of other CreateVolume calls included, satisfies the         *)
(* selector.                                                               *)
(***************************************************************************)
\* a label selector with match-labels: every label of the selector is a
\* label of the object, with the same value
Satisfies(labels, matchLabels) ==
    \A k \in DOMAIN matchLabels : k \in DOMAIN labels /\ labels[k] = matchLabels[k]

C23_ClaimPinsItsVolume ==
    [][\A p \in Procs :
        (CreateVolumeClaim(p) /\ err'[p] = NoError) =>
            LET pv == mounts'[p][1].PersistentVolume
                pvc == mounts'[p][1].PersistentVolumeClaim
            IN /\ pv \in pvs'
               /\ pvc \in pvcs'
               /\ pv.Name = volumeName[p]
               /\ pvc.Name = makePersistentVolumeClaimName(pv.Name)
               /\ pvc.MatchLabels = pvc.Labels
               /\ pvc.MatchLabels = pv.Labels
               /\ Satisfies(pv.Labels, pvc.MatchLabels)
               /\ \A other \in pvs' \ {pv} : ~Satisfies(other.Labels, pvc.MatchLabels)
               /\ \A q \in Procs \ {p} :
                     CreatedMount(q) =>
                        /\ ~Satisfies(mounts[q][1].PersistentVolume.Labels, pvc.MatchLabels)
                        /\ ~Satisfies(pv.Labels, mounts[q][1].PersistentVolumeClaim.MatchLabels)]_vars

\* two volumes with claims were created for the same dataset
C23_Witness ==
    \E p \in Procs, q \in Procs :
        /\ p # q
        /\ CreatedMount(p)
        /\ CreatedMount(q)
        /\ ds[p] = ds[q]
        /\ mounts[p][1].PersistentVolume \in pvs
        /\ mounts[q][1].PersistentVolume \in pvs
        /\ mounts[p][1].PersistentVolumeClaim.MatchLabels = mounts[p][1].PersistentVolume.Labels
        /\ mounts[p][1].PersistentVolumeClaim.MatchLabels # mounts[q][1].PersistentVolume.Labels

(***************************************************************************)
(* C24.  As claimed: GetVolume and ListVolumes agree.  On one cluster      *)
(* state and for every name v, GetVolume(v), when the backend answers its  *)
(* calls, returns a mount exactly when ListVolumes on that state, whatever *)
(* the order of the lists, returns a mount that shows volume v.            *)
(***************************************************************************)
\* ListVolumes run on volumes V and claims C from namespace ns returns a
\* mount for v, whatever the order of the two lists
ListedIn(V, C, ns, v) ==
    \A pvItems \in Orders(V), pvcItems \in Orders({c \in C : c.Namespace = ns}) :
        HasMountFor(ListVolumesMounts(pvItems, pvcItems), v)

C24_GetAgreesWithList ==
    [][\A p \in Procs :
        /\ \A v \in ArgNames :
              (GetVolume(p, v) /\ pc'[p] = "idle" /\ err'[p] # "BackendError") =>
                  ~ListedIn(pvs, pvcs, namespace[p], v)
        /\ (GetVolumeClaim(p) /\ err'[p] # "BackendError" /\ held[p][1] \in pvs) =>
              (err'[p] = NoError <=> ListedIn(pvs, pvcs, namespace[p], volumeName[p]))]_vars

(***************************************************************************)
(* C25.  DeleteVolume(v) touches only its own pair.  In each of its steps, *)
(* whether the call succeeds or fails, nothing is added, every volume with *)
(* a name other than v stays as it is, every claim stays as it is except   *)
(* the claim named v-claim in the manager's namespace, and the storage     *)
(* classes stay as they are.                                               *)
(***************************************************************************)
DeleteFrame(p, v) ==
    /\ pvs' \subseteq pvs
    /\ pvcs' \subseteq pvcs
    /\ scs' = scs
    /\ \A pv \in pvs : pv.Name # v => pv \in pvs'
    /\ \A c \in pvcs :
          (c.Namespace # namespace[p] \/ c.Name # makePersistentVolumeClaimName(v))
              => c \in pvcs'

C25_DeleteTouchesOwnPair ==
    [][\A p \in Procs :
        /\ \A v \in ArgNames : DeleteVolume(p, v) => (DeleteFrame(p, v) /\ pvs' = pvs)
        /\ DeleteVolumeVolume(p) => (DeleteFrame(p, volumeName[p]) /\ pvcs' = pvcs)]_vars

\* a volume and its claim were deleted while another managed volume and a
\* claim of another namespace are still there
C25_Witness ==
    \E p \in Procs :
        /\ Returned(p, "DeleteVolume")
        /\ err[p] = NoError
        /\ volumeName[p] = NewName
        /\ Absent(pvs, pvcs, namespace[p], NewName)
        /\ VolumeExists(pvs, OldName)
        /\ \E c \in pvcs : c.Namespace # namespace[p]

(***************************************************************************)
(* C28.  As claimed: namespace scoping of mounts.  A manager creates its   *)
(* claims in its own namespace.  While the volume v and the claim of a     *)
(* mount created by a manager of another namespace exist, ListVolumes of   *)
(* this manager returns no mount that shows v, GetVolume(v) returns an     *)
(* error and no mount, and DeleteVolume(v) returns an error and removes    *)
(* neither the claim nor the volume.                                       *)
(***************************************************************************)
\* caller q holds a mount of another namespace than p's, still in place
ForeignMount(p, q) ==
    /\ p # q
    /\ namespace[p] # namespace[q]
    /\ CreatedMount(q)
    /\ mounts[q][1].PersistentVolume \in pvs
    /\ mounts[q][1].PersistentVolumeClaim \in pvcs

C28_NamespaceScoping ==
    [][\A p \in Procs :
        /\ CreateVolumeClaim(p) => \A c \in pvcs' \ pvcs : c.Namespace = namespace[p]
        /\ \A q \in Procs :
              ForeignMount(p, q) =>
                 LET v == volumeName[q] IN
                 /\ mounts[q][1].PersistentVolumeClaim.Namespace = namespace[q]
                 /\ ListReturns(p) => ~HasMountFor(mounts'[p], v)
                 /\ (GetVolume(p, v) /\ pc'[p] = "idle") =>
                        (err'[p] # NoError /\ mounts'[p] = <<>>)
                 /\ (GetVolumeClaim(p) /\ volumeName[p] = v) =>
                        (err'[p] # NoError /\ mounts'[p] = <<>>)
                 /\ DeleteVolume(p, v) =>
                        /\ pc'[p] = "idle"
                        /\ err'[p] # NoError
                        /\ pvs' = pvs
                        /\ pvcs' = pvcs]_vars

(***************************************************************************)
(* C26: the return command processes every volume name it is given: when   *)
(* GetVolume fails for one name the error is logged and the command goes   *)
(* on without crashing, so it never ends in a panic and never ends with    *)
(* names it did not get to.                                                *)
(***************************************************************************)
\* the return command of caller p has ended
ReturnEnded(p) == handler[p].cmd = "none" /\ handler[p].exit \in {"ok", "panic"}

C26_ReturnProcessesEveryName ==
    \A p \in Procs :
        ReturnEnded(p) => (handler[p].exit = "ok" /\ handler[p].args = <<>>)

(***************************************************************************)
(* C27: the order command ensures the storage class before it creates      *)
(* anything.  In every state reached by order and return commands from a   *)
(* control plane without managed objects, a volume or a claim exists only  *)
(* if the storage class of the reserved name exists; and the only step an  *)
(* order takes after a failed CreateStorageClass is its fatal exit, which  *)
(* creates no volume and no claim.                                         *)
(***************************************************************************)
\* the order of caller p is back from CreateStorageClass with an error
EnsureFailed(p) ==
    /\ handler[p].cmd = "order"
    /\ pc[p] = "idle"
    /\ op[p] = "CreateStorageClass"
    /\ err[p] # NoError

C27_StorageClassBeforeVolumes ==
    [][/\ (pvs # {} \/ pvcs # {}) => ManagedStorageClasses(scs) # {}
       /\ (pvs' # {} \/ pvcs' # {}) => ManagedStorageClasses(scs') # {}
       /\ \A p \in Procs :
            (EnsureFailed(p) /\ <<pc[p], op[p], handler[p]>>' # <<pc[p], op[p], handler[p]>>) =>
                /\ handler'[p].cmd = "none"
                /\ handler'[p].exit = "fatal"
                /\ pvs' = pvs
                /\ pvcs' = pvcs]_vars

\* one order ended fatally after CreateStorageClass failed, having created
\* nothing, while the order of another caller created a mount under the
\* storage class
C27_Witness ==
    \E p, q \in Procs :
        /\ p # q
        /\ handler[p].exit = "fatal"
        /\ op[p] = "CreateStorageClass"
        /\ err[p] # NoError
        /\ handler[q].exit = "ok"
        /\ CreatedMount(q)
        /\ mounts[q][1].PersistentVolume \in pvs
        /\ ManagedStorageClasses(scs) # {}

====
